---- MODULE Spec2Model ----
(***************************************************************************)
(* Model of package datastore (dataset.go, versioning.go): the registry    *)
(* Datasets, the Dataset with its embedded VersionDAG, the guard cache     *)
(* versionMutexes and the store, and the operations newDataset, Lock,      *)
(* newChild, NewData, VersionMutex, DataService, Put, Get and the prefix   *)
(* lookups, run by concurrent goroutines.  Every step of a goroutine is    *)
(* one statement (or one lock-protected group of statements) of the        *)
(* source; goroutines interleave between steps, and a read or write of a   *)
(* map or a field is one indivisible step.  Pointers are addresses into    *)
(* dsetObjs, nodeObjs and mutexObjs.  In every specification but SpecMint  *)
(* the UUID source is available and hands out distinct values.             *)
(*                                                                         *)
(*   Spec         newDataset, Lock, newChild on the version DAGs           *)
(*   SpecData     newDataset, newData                                      *)
(*   SpecGuard    SpecData with VersionMutex and its callers               *)
(*   SpecLookup   newDataset, newData, DataService                         *)
(*   SpecSave     newDataset with Put                                      *)
(*   SpecPersist  one goroutine that builds a registry, Puts and Gets it   *)
(*   SpecResolve  one prefix lookup on a given map                         *)
(*   SpecLocks    all operations that lock, with Put, scheduled fairly     *)
(*   SpecMint     Spec over a UUID source that may fail at every draw      *)
(***************************************************************************)
EXTENDS Integers, Sequences, FiniteSets, TLC

\* ------------------------------------------------------------- bounds
\* number of goroutines calling into the package
NumThreads == 2
\* number of identifiers the UUID source can hand out
MaxUUIDs == 3
\* number of Datasets the registry may hold
MaxDatasets == 2
\* number of Datasets the registry may hold where data is added to them
MaxDataDatasets == 1

\* ---------------------------------------------------- program constants
\* len(u) != 16 in NewUUID
UuidBytes == 16
\* dvid.KeyDataStart, the first data id of a Dataset (package dvid sets the
\* value; nothing here depends on which number it is)
KeyDataStart == 1

Threads == 1 .. NumThreads
NoThread == 0
NoDataset == 0

\* ------------------------------------------------------ identifier layer
HexDigits == <<"0", "1", "2", "3", "4", "5", "6", "7",
               "8", "9", "a", "b", "c", "d", "e", "f">>

\* fmt.Sprintf("%02x", b) for one byte
Hex2(b) == <<HexDigits[(b \div 16) + 1], HexDigits[(b % 16) + 1]>>

\* fmt.Sprintf("%032x", []byte(u)): two lowercase hex digits per byte
RECURSIVE FormatHex(_)
FormatHex(bytes) ==
    IF bytes = <<>> THEN <<>> ELSE Hex2(Head(bytes)) \o FormatHex(Tail(bytes))

\* a nil uuid.UUID (a nil byte slice)
NilRaw == <<>>

\* the i-th value of the UUID source: 16 bytes, distinct for distinct i
RawUUID(i) ==
    [k \in 1 .. UuidBytes |->
        IF k = 1 THEN 160 + 16 * ((i - 1) % 2) + ((i - 1) \div 2) ELSE 0]

\* what uuid.NewUUID() can return while the source is available
RawSource == { RawUUID(i) : i \in 1 .. MaxUUIDs }

\* NewUUID: the empty UUID when the library returns nil or a wrong length
NewUUID(raw) ==
    IF raw = NilRaw \/ Len(raw) # UuidBytes THEN <<>> ELSE FormatHex(raw)

InvalidUUID == <<>>

\* every UUID a caller may pass in
AllUUIDs == { NewUUID(raw) : raw \in RawSource }

\* ------------------------------------------------------------- data types
\* the keys of CompiledTypes
CompiledTypeNames == {"grayscale8"}

\* error values; NoErr is a nil error
NoErr == "nil"
ErrNotFound == "NotFound"
ErrNotLocked == "NotLocked"
ErrAlreadyExists == "AlreadyExists"
ErrUnknownType == "UnknownType"
ErrConstructor == "ConstructorError"

EmptyMap == <<>>

\* m[k] = v on a Go map
MapPut(m, k, v) == [x \in (DOMAIN m) \cup {k} |-> IF x = k THEN v ELSE m[x]]

\* ------------------------------------------------------------------ state
VARIABLES
    Datasets,       \* Datasets.Datasets: sequence of *Dataset (addresses)
    NewDatasetID,   \* Datasets.NewDatasetID
    versionMap,     \* Datasets.versionMap: UUID -> *Dataset
    writeLock,      \* Datasets.writeLock: holder or NoThread
    dsetObjs,       \* address -> Dataset object (with its embedded VersionDAG)
    nodeObjs,       \* address -> Node object
    th,             \* per goroutine: position and locals
    minted,         \* raw values the UUID source has handed out
    clock,          \* what time.Now() returns next
    versionMutexes, \* the package variable versionMutexes: nodeID -> *sync.Mutex
    mutexObjs,      \* address -> sync.Mutex object: holder or NoThread
    db,             \* what the KeyValueDB holds under KeyDatasets
    scan            \* the call frame of a prefix lookup run on its own

vars == <<Datasets, NewDatasetID, versionMap, writeLock, dsetObjs, nodeObjs,
          th, minted, clock, versionMutexes, mutexObjs, db, scan>>

\* the package-level guard cache and its lock objects
guardVars == <<versionMutexes, mutexObjs>>

\* what the operations on the registry's Datasets leave alone
outside == <<versionMutexes, mutexObjs, db, scan>>

\* the fields of the registry object
registryVars == <<Datasets, NewDatasetID, versionMap, writeLock>>

\* everything but the goroutines' locals and the environment
shared == <<Datasets, NewDatasetID, versionMap, writeLock, dsetObjs, nodeObjs>>

\* the zero values of DataService's content, of nodeID, of a pointer to a
\* sync.Mutex, and of a byte slice
NoService ==
    [DataID |-> [Name |-> "", ID |-> 0, DatasetID |-> 0],
     TypeName |-> "", Config |-> ""]
ZeroNodeID == [Dataset |-> 0, Data |-> 0, Version |-> 0]
NoMutex == 0
NoBytes == <<>>

\* no prefix lookup is running on its own
NoScan == [pc |-> "none"]

IdleThread ==
    [pc |-> "idle", arg |-> InvalidUUID, name |-> "",
     typeName |-> "", config |-> "", dset |-> NoDataset, node |-> 0,
     u |-> InvalidUUID, t |-> 0, err |-> NoErr,
     svc |-> NoService, id |-> ZeroNodeID, vmutex |-> NoMutex,
     data |-> NoBytes]

Init ==
    /\ Datasets = <<>>
    /\ NewDatasetID = 0
    /\ versionMap = EmptyMap
    /\ writeLock = NoThread
    /\ dsetObjs = <<>>
    /\ nodeObjs = <<>>
    /\ th = [t \in Threads |-> IdleThread]
    /\ minted = {}
    /\ clock = 0
    /\ versionMutexes = EmptyMap
    /\ mutexObjs = <<>>
    /\ db = NoBytes
    /\ scan = NoScan

\* a call begins with argument arg: the previous call's result is dropped
Begin(arg) == [IdleThread EXCEPT !.arg = arg]

\* a goroutine returns err to its caller: the call's locals are gone, what
\* the caller holds is the error it got back
Return(t, err) == th' = [th EXCEPT ![t] = [IdleThread EXCEPT !.err = err]]

Goto(t, loc, pc) == th' = [th EXCEPT ![t] = [loc EXCEPT !.pc = pc]]

\* calls that have still to draw from the UUID source
Pending == { t \in Threads : th[t].pc \in {"nd_create", "nc_check", "nc_mint"} }

\* the UUID source can serve one more call
CanMint == Cardinality(minted) + Cardinality(Pending) < MaxUUIDs

\* ---------------------------------------------------------- VersionDAG
\* &Node{NodeVersion: version} of NewVersionDAG: the root node
RootNode(root, now) ==
    [GlobalID |-> root, VersionID |-> 0, Locked |-> FALSE, Parents |-> <<>>,
     Children |-> <<>>, Created |-> now, Updated |-> now,
     writeLock |-> NoThread]

\* NewVersionDAG: the root node object lives at rootAddr; the fields that
\* Dataset adds to the embedded DAG are at their zero values
NewVersionDAG(root, rootAddr) ==
    [Root |-> root,
     Nodes |-> MapPut(EmptyMap, root, rootAddr),
     VersionMap |-> MapPut(EmptyMap, root, 0),
     NewVersionID |-> 1,
     NewDataID |-> 0,
     mapLock |-> NoThread,
     Alias |-> "",
     DatasetID |-> 0,
     nameMap |-> EmptyMap]

\* ------------------------------------------------- Datasets.newDataset
\* dsets.writeLock.Lock()
newDataset_lock(t) ==
    /\ th[t].pc = "idle"
    /\ writeLock = NoThread
    /\ Len(dsetObjs) < MaxDatasets
    /\ CanMint
    /\ writeLock' = t
    /\ Goto(t, Begin(InvalidUUID), "nd_create")
    /\ UNCHANGED <<Datasets, NewDatasetID, versionMap, dsetObjs, nodeObjs,
                   minted, clock>>
    /\ UNCHANGED outside

\* dset = &Dataset{VersionDAG: NewVersionDAG(), DatasetID: dsets.NewDatasetID}
\* dset.NewDataID = dvid.KeyDataStart
newDataset_create(t, raw) ==
    /\ th[t].pc = "nd_create"
    /\ LET root == NewUUID(raw)
           rootAddr == Len(nodeObjs) + 1
           dset == [NewVersionDAG(root, rootAddr) EXCEPT
                        !.DatasetID = NewDatasetID,
                        !.NewDataID = KeyDataStart]
       IN /\ nodeObjs' = Append(nodeObjs, RootNode(root, clock))
          /\ dsetObjs' = Append(dsetObjs, dset)
          /\ Goto(t, [th[t] EXCEPT !.dset = Len(dsetObjs) + 1, !.u = root,
                                   !.t = clock], "nd_incr")
    /\ minted' = minted \cup {raw}
    /\ clock' = clock + 1
    /\ UNCHANGED <<Datasets, NewDatasetID, versionMap, writeLock>>
    /\ UNCHANGED outside

\* dsets.NewDatasetID++
newDataset_incr(t) ==
    /\ th[t].pc = "nd_incr"
    /\ NewDatasetID' = NewDatasetID + 1
    /\ Goto(t, th[t], "nd_append")
    /\ UNCHANGED <<Datasets, versionMap, writeLock, dsetObjs, nodeObjs,
                   minted, clock>>
    /\ UNCHANGED outside

\* dsets.Datasets = append(dsets.Datasets, dset)
newDataset_append(t) ==
    /\ th[t].pc = "nd_append"
    /\ Datasets' = Append(Datasets, th[t].dset)
    /\ Goto(t, th[t], "nd_index")
    /\ UNCHANGED <<NewDatasetID, versionMap, writeLock, dsetObjs, nodeObjs,
                   minted, clock>>
    /\ UNCHANGED outside

\* dsets.versionMap[dset.Root] = dset; return (the deferred Unlock runs)
newDataset_index(t) ==
    /\ th[t].pc = "nd_index"
    /\ versionMap' = MapPut(versionMap, dsetObjs[th[t].dset].Root, th[t].dset)
    /\ writeLock' = NoThread
    /\ Return(t, NoErr)
    /\ UNCHANGED <<Datasets, NewDatasetID, dsetObjs, nodeObjs, minted, clock>>
    /\ UNCHANGED outside

\* -------------------------------------------------------- VersionDAG.Lock
\* the Datasets a caller can get hold of
KnownDatasets == { Datasets[i] : i \in 1 .. Len(Datasets) }

\* faulty variant: the flag is flipped
SetLocked_toggle(node) == [node EXCEPT !.Locked = ~@]

\* node.Locked = true
SetLocked(node) == [node EXCEPT !.Locked = TRUE]

\* Lock on the DAG of Dataset d
Lock(t, d, u) ==
    /\ th[t].pc = "idle"
    /\ d \in KnownDatasets
    /\ IF u \notin DOMAIN dsetObjs[d].Nodes
       THEN /\ Return(t, ErrNotFound)
            /\ UNCHANGED nodeObjs
       ELSE LET a == dsetObjs[d].Nodes[u]
            IN /\ nodeObjs' = [nodeObjs EXCEPT ![a] = SetLocked(nodeObjs[a])]
               /\ Return(t, NoErr)
    /\ UNCHANGED <<registryVars, dsetObjs, minted, clock>>
    /\ UNCHANGED outside

\* ------------------------------------------------------------ newChild
\* Datasets.newChild: dset, found := dsets.versionMap[parent]
Datasets_newChild_lookup(t, parent) ==
    /\ th[t].pc = "idle"
    /\ CanMint
    /\ LET loc == Begin(parent)
       IN IF parent \notin DOMAIN versionMap
          THEN Return(t, ErrNotFound)
          ELSE Goto(t, [loc EXCEPT !.dset = versionMap[parent]], "nc_check")
    /\ UNCHANGED <<shared, minted, clock>>
    /\ UNCHANGED outside

\* faulty variants of the lock test: one that never refuses, one that
\* refuses the locked parents
ParentNotLocked_never(node) == FALSE
ParentNotLocked_inverted(node) == node.Locked

\* if !node.Locked
ParentNotLocked(node) == ~node.Locked

\* VersionDAG.newChild: node, found := dag.Nodes[parent], and the two tests
VersionDAG_newChild_check(t) ==
    /\ th[t].pc = "nc_check"
    /\ LET dag == dsetObjs[th[t].dset]
           parent == th[t].arg
       IN IF parent \notin DOMAIN dag.Nodes
          THEN Return(t, ErrNotFound)
          ELSE IF ParentNotLocked(nodeObjs[dag.Nodes[parent]])
               THEN Return(t, ErrNotLocked)
               ELSE Goto(t, [th[t] EXCEPT !.node = dag.Nodes[parent]], "nc_mint")
    /\ UNCHANGED <<shared, minted, clock>>
    /\ UNCHANGED outside

\* u = NewUUID(); t := time.Now()
VersionDAG_newChild_mint(t, raw) ==
    /\ th[t].pc = "nc_mint"
    /\ Goto(t, [th[t] EXCEPT !.u = NewUUID(raw), !.t = clock], "nc_nodeLock")
    /\ minted' = minted \cup {raw}
    /\ clock' = clock + 1
    /\ UNCHANGED shared
    /\ UNCHANGED outside

\* node.writeLock.Lock()
VersionDAG_newChild_nodeLock(t) ==
    /\ th[t].pc = "nc_nodeLock"
    /\ nodeObjs[th[t].node].writeLock = NoThread
    /\ nodeObjs' = [nodeObjs EXCEPT ![th[t].node].writeLock = t]
    /\ Goto(t, th[t], "nc_append")
    /\ UNCHANGED <<registryVars, dsetObjs, minted, clock>>
    /\ UNCHANGED outside

\* faulty variant: the result of append is dropped
AppendChild_lost(node, u, now) == [node EXCEPT !.Updated = now]

\* node.Children = append(node.Children, u); node.Updated = t
AppendChild(node, u, now) ==
    [node EXCEPT !.Children = Append(@, u), !.Updated = now]

\* the two writes under node.writeLock, then node.writeLock.Unlock()
VersionDAG_newChild_append(t) ==
    /\ th[t].pc = "nc_append"
    /\ nodeObjs' = [nodeObjs EXCEPT ![th[t].node] =
            [AppendChild(nodeObjs[th[t].node], th[t].u, th[t].t)
                EXCEPT !.writeLock = NoThread]]
    /\ Goto(t, th[t], "nc_mapLock")
    /\ UNCHANGED <<registryVars, dsetObjs, minted, clock>>
    /\ UNCHANGED outside

\* dag.mapLock.Lock()
VersionDAG_newChild_mapLock(t) ==
    /\ th[t].pc = "nc_mapLock"
    /\ dsetObjs[th[t].dset].mapLock = NoThread
    /\ dsetObjs' = [dsetObjs EXCEPT ![th[t].dset].mapLock = t]
    /\ Goto(t, th[t], "nc_insert")
    /\ UNCHANGED <<registryVars, nodeObjs, minted, clock>>
    /\ UNCHANGED outside

\* &Node{NodeVersion: &NodeVersion{GlobalID: u, VersionID: dag.NewVersionID,
\*   Created: t, Updated: t, Parents: []UUID{u}}}
ChildNode(u, id, now) ==
    [GlobalID |-> u, VersionID |-> id, Locked |-> FALSE, Parents |-> <<u>>,
     Children |-> <<>>, Created |-> now, Updated |-> now,
     writeLock |-> NoThread]

\* dag.Nodes[u] = &Node{NodeVersion: version}
VersionDAG_newChild_insert(t) ==
    /\ th[t].pc = "nc_insert"
    /\ LET d == th[t].dset
           a == Len(nodeObjs) + 1
       IN /\ nodeObjs' = Append(nodeObjs,
                ChildNode(th[t].u, dsetObjs[d].NewVersionID, th[t].t))
          /\ dsetObjs' = [dsetObjs EXCEPT ![d].Nodes = MapPut(@, th[t].u, a)]
    /\ Goto(t, th[t], "nc_incr")
    /\ UNCHANGED <<registryVars, minted, clock>>
    /\ UNCHANGED outside

\* faulty variant: the counter is left as it is
IncrVersionID_stuck(id) == id

\* dag.NewVersionID++
IncrVersionID(id) == id + 1

\* dag.NewVersionID++; dag.mapLock.Unlock(); return
VersionDAG_newChild_incr(t) ==
    /\ th[t].pc = "nc_incr"
    /\ dsetObjs' = [dsetObjs EXCEPT
            ![th[t].dset].NewVersionID = IncrVersionID(@),
            ![th[t].dset].mapLock = NoThread]
    /\ Goto(t, th[t], "nc_index")
    /\ UNCHANGED <<registryVars, nodeObjs, minted, clock>>
    /\ UNCHANGED outside

\* Datasets.newChild: dsets.versionMap[u] = dset; return
Datasets_newChild_index(t) ==
    /\ th[t].pc = "nc_index"
    /\ versionMap' = MapPut(versionMap, th[t].u, th[t].dset)
    /\ Return(t, NoErr)
    /\ UNCHANGED <<Datasets, NewDatasetID, writeLock, dsetObjs, nodeObjs,
                   minted, clock>>
    /\ UNCHANGED outside

\* ------------------------------------------------------------- NewData
\* Datasets.newData: dset, found := dsets.versionMap[u]
Datasets_newData_lookup(t, u, name, typeName, config) ==
    /\ th[t].pc = "idle"
    /\ LET loc == [Begin(u) EXCEPT
                      !.name = name, !.typeName = typeName, !.config = config]
       IN IF u \notin DOMAIN versionMap
          THEN Return(t, ErrNotFound)
          ELSE Goto(t, [loc EXCEPT !.dset = versionMap[u]], "data_check")
    /\ UNCHANGED <<shared, minted, clock>>
    /\ UNCHANGED outside

\* faulty variant: the name is never found
NameFound_never(dset, name) == FALSE

\* dataservice, found := dset.nameMap[name]
NameFound(dset, name) == name \in DOMAIN dset.nameMap

\* TypeServiceByName(typeName) finds a compiled type
TypeServiceByName(typeName) == typeName \in CompiledTypeNames

\* Dataset.NewData up to the lock: the name test and the type lookup
Dataset_NewData_check(t) ==
    /\ th[t].pc = "data_check"
    /\ IF NameFound(dsetObjs[th[t].dset], th[t].name)
       THEN Return(t, ErrAlreadyExists)
       ELSE IF ~TypeServiceByName(th[t].typeName)
            THEN Return(t, ErrUnknownType)
            ELSE Goto(t, th[t], "data_lock")
    /\ UNCHANGED <<shared, minted, clock>>
    /\ UNCHANGED outside

\* dset.mapLock.Lock()
Dataset_NewData_lock(t) ==
    /\ th[t].pc = "data_lock"
    /\ dsetObjs[th[t].dset].mapLock = NoThread
    /\ dsetObjs' = [dsetObjs EXCEPT ![th[t].dset].mapLock = t]
    /\ Goto(t, th[t], "data_create")
    /\ UNCHANGED <<registryVars, nodeObjs, minted, clock>>
    /\ UNCHANGED outside

\* dataID := &DataID{name, dset.NewDataID, dset.DatasetID}
NewDataIDOf(dset, name) ==
    [Name |-> name, ID |-> dset.NewDataID, DatasetID |-> dset.DatasetID]

\* what typeService.NewDataService(dataID, config) builds
NewDataService(dataID, typeName, config) ==
    [DataID |-> dataID, TypeName |-> typeName, Config |-> config]

\* faulty variant: the lock stays with its holder
Unlock_kept(holder) == holder

\* the deferred dset.mapLock.Unlock(): nobody holds the lock
Unlock(holder) == NoThread

\* dataservice, err = typeService.NewDataService(dataID, config), which may
\* fail; dset.nameMap[name] = dataservice; on both paths the deferred
\* Unlock runs.  (A nil nameMap is made first: nil and empty are one here.)
Dataset_NewData_create(t, ok) ==
    /\ th[t].pc = "data_create"
    /\ LET dset == dsetObjs[th[t].dset]
           svc == NewDataService(NewDataIDOf(dset, th[t].name),
                                 th[t].typeName, th[t].config)
       IN IF ok
          THEN /\ dsetObjs' = [dsetObjs EXCEPT
                     ![th[t].dset].nameMap = MapPut(@, th[t].name, svc),
                     ![th[t].dset].mapLock = Unlock(t)]
               /\ Return(t, NoErr)
          ELSE /\ dsetObjs' = [dsetObjs EXCEPT ![th[t].dset].mapLock = Unlock(t)]
               /\ Return(t, ErrConstructor)
    /\ UNCHANGED <<registryVars, nodeObjs, minted, clock>>
    /\ UNCHANGED outside

\* ---------------------------------------------------------- specification
\* the UUID source hands out a value it has not handed out before: the
\* values come in the order RawUUID(1), RawUUID(2), ...
FreshRaw == { RawUUID(Cardinality(minted) + 1) } \ minted

\* the operations on the version DAGs: newDataset, Lock, newChild
NextDAG(t) ==
    \/ newDataset_lock(t)
    \/ \E raw \in FreshRaw : newDataset_create(t, raw)
    \/ newDataset_incr(t)
    \/ newDataset_append(t)
    \/ newDataset_index(t)
    \/ \E d \in KnownDatasets, u \in AllUUIDs : Lock(t, d, u)
    \/ \E parent \in AllUUIDs : Datasets_newChild_lookup(t, parent)
    \/ VersionDAG_newChild_check(t)
    \/ \E raw \in FreshRaw : VersionDAG_newChild_mint(t, raw)
    \/ VersionDAG_newChild_nodeLock(t)
    \/ VersionDAG_newChild_append(t)
    \/ VersionDAG_newChild_mapLock(t)
    \/ VersionDAG_newChild_insert(t)
    \/ VersionDAG_newChild_incr(t)
    \/ Datasets_newChild_index(t)

Next == \E t \in Threads : NextDAG(t)

\* the newData calls the callers make: a name asked for with two configs,
\* a second name, and a type that is not compiled in
Requests ==
    { [name |-> "grayscale", typeName |-> "grayscale8", config |-> "versioned"],
      [name |-> "grayscale", typeName |-> "grayscale8", config |-> "unversioned"],
      [name |-> "labels", typeName |-> "grayscale8", config |-> "versioned"],
      [name |-> "labels", typeName |-> "nosuchtype", config |-> "versioned"] }

\* the operations on the data of the Datasets: newDataset, newData
NextData(t) ==
    \/ Len(dsetObjs) < MaxDataDatasets /\ newDataset_lock(t)
    \/ \E raw \in FreshRaw : newDataset_create(t, raw)
    \/ newDataset_incr(t)
    \/ newDataset_append(t)
    \/ newDataset_index(t)
    \/ \E u \in AllUUIDs, r \in Requests :
            Datasets_newData_lookup(t, u, r.name, r.typeName, r.config)
    \/ Dataset_NewData_check(t)
    \/ Dataset_NewData_lock(t)
    \/ \E ok \in BOOLEAN : Dataset_NewData_create(t, ok)

Spec == Init /\ [][Next]_vars

SpecData == Init /\ [][\E t \in Threads : NextData(t)]_vars

\* ----------------------------------------------------------- VersionMutex
\* data.DatasetLocalID() and data.DataLocalID(): the ids the instance was
\* built with (the accessors are part of the data types, outside this package)
DatasetLocalID(data) == data.DataID.DatasetID
DataLocalID(data) == data.DataID.ID

\* nodeID{data.DatasetLocalID(), data.DataLocalID(), versionID}
NodeIDOf(data, versionID) ==
    [Dataset |-> DatasetLocalID(data), Data |-> DataLocalID(data),
     Version |-> versionID]

\* the local ids of versions a caller asks a guard for
VersionIDsAsked == 0 .. 1

\* the data instances a caller can get hold of
KnownServices ==
    UNION { { dsetObjs[d].nameMap[n] : n \in DOMAIN dsetObjs[d].nameMap } :
                d \in KnownDatasets }

\* var mutex sync.Mutex; mutex.Lock(): the mutex is a variable of this call,
\* so no other call ever finds it held and the Lock excludes nobody.
\* id := nodeID{...}; vmutex, found = versionMutexes[id]
VersionMutex_lookup(t, data, versionID) ==
    /\ th[t].pc = "idle"
    /\ LET id == NodeIDOf(data, versionID)
           loc == [Begin(InvalidUUID) EXCEPT !.svc = data, !.id = id]
       IN IF id \in DOMAIN versionMutexes
          THEN Goto(t, [loc EXCEPT !.vmutex = versionMutexes[id]], "vm_return")
          ELSE Goto(t, loc, "vm_insert")
    /\ UNCHANGED <<shared, minted, clock, outside>>

\* vmutex = new(sync.Mutex); versionMutexes[id] = vmutex
VersionMutex_insert(t) ==
    /\ th[t].pc = "vm_insert"
    /\ mutexObjs' = Append(mutexObjs, NoThread)
    /\ versionMutexes' = MapPut(versionMutexes, th[t].id, Len(mutexObjs) + 1)
    /\ Goto(t, [th[t] EXCEPT !.vmutex = Len(mutexObjs) + 1], "vm_return")
    /\ UNCHANGED <<shared, minted, clock, db, scan>>

\* mutex.Unlock(); return: the caller has the guard and locks it for its
\* operation on the data of that version
Guard_Lock(t) ==
    /\ th[t].pc = "vm_return"
    /\ mutexObjs[th[t].vmutex] = NoThread
    /\ mutexObjs' = [mutexObjs EXCEPT ![th[t].vmutex] = t]
    /\ Goto(t, th[t], "guarded")
    /\ UNCHANGED <<shared, minted, clock, versionMutexes, db, scan>>

\* the caller's operation is over: it unlocks the guard
Guard_Unlock(t) ==
    /\ th[t].pc = "guarded"
    /\ mutexObjs' = [mutexObjs EXCEPT ![th[t].vmutex] = NoThread]
    /\ Return(t, NoErr)
    /\ UNCHANGED <<shared, minted, clock, versionMutexes, db, scan>>

\* the guards of the data of the Datasets: newDataset, newData, VersionMutex
NextGuard(t) ==
    \/ NextData(t)
    \/ \E data \in KnownServices, v \in VersionIDsAsked :
            VersionMutex_lookup(t, data, v)
    \/ VersionMutex_insert(t)
    \/ Guard_Lock(t)
    \/ Guard_Unlock(t)

SpecGuard == Init /\ [][\E t \in Threads : NextGuard(t)]_vars

\* ------------------------------------------------------------ persistence
\* error values of Put and Get
ErrSerialize == "SerializeError"
ErrDeserialize == "DeserializeError"
ErrBackend == "BackendError"

\* number of Dataset objects memory may hold when a Get is started
MaxHeap == 2

\* what the encoding keeps of a Node: the exported fields (writeLock is
\* private)
EncodeNode(node) ==
    [GlobalID |-> node.GlobalID, VersionID |-> node.VersionID,
     Locked |-> node.Locked, Parents |-> node.Parents,
     Children |-> node.Children, Created |-> node.Created,
     Updated |-> node.Updated]

\* what the encoding keeps of a Dataset: the exported fields, the nodes by
\* value (mapLock and nameMap are private, "must be recreated when loading")
EncodeDataset(dset) ==
    [Root |-> dset.Root,
     Nodes |-> [u \in DOMAIN dset.Nodes |-> EncodeNode(nodeObjs[dset.Nodes[u]])],
     VersionMap |-> dset.VersionMap,
     NewVersionID |-> dset.NewVersionID,
     NewDataID |-> dset.NewDataID,
     Alias |-> dset.Alias,
     DatasetID |-> dset.DatasetID]

\* dvid.Serialize(dsets, dvid.Snappy, dvid.CRC32): the bytes hold the
\* exported fields of Datasets (versionMap and writeLock are private)
Serialize ==
    << [Datasets |-> [i \in 1 .. Len(Datasets) |->
                          EncodeDataset(dsetObjs[Datasets[i]])],
        NewDatasetID |-> NewDatasetID] >>

\* Put up to the call of db.Put.  var mutex sync.Mutex; mutex.Lock(): the
\* mutex is a variable of this call and excludes nobody.
\* serialization, err := dsets.Serialize(), which may fail
Put_serialize(t, ok) ==
    /\ th[t].pc = "idle"
    /\ IF ok
       THEN Goto(t, [Begin(InvalidUUID) EXCEPT !.data = Serialize], "put_db")
       ELSE Return(t, ErrSerialize)
    /\ UNCHANGED <<shared, minted, clock, outside>>

\* return db.Put(&KeyDatasets, serialization), which may fail
Put_db(t, ok) ==
    /\ th[t].pc = "put_db"
    /\ IF ok
       THEN db' = th[t].data /\ Return(t, NoErr)
       ELSE db' = db /\ Return(t, ErrBackend)
    /\ UNCHANGED <<shared, minted, clock, guardVars, scan>>

\* Get: data, err = db.Get(&KeyDatasets), which may fail
Get_read(t, ok) ==
    /\ th[t].pc = "idle"
    /\ Len(dsetObjs) + (IF db = NoBytes THEN 0 ELSE Len(db[1].Datasets))
            <= MaxHeap
    /\ IF ok
       THEN Goto(t, [Begin(InvalidUUID) EXCEPT !.data = db], "ds_clear")
       ELSE Return(t, ErrBackend)
    /\ UNCHANGED <<shared, minted, clock, outside>>

\* Deserialize: dsets.Datasets = []*Dataset{}
Deserialize_clear(t) ==
    /\ th[t].pc = "ds_clear"
    /\ Datasets' = <<>>
    /\ Goto(t, th[t], "ds_decode")
    /\ UNCHANGED <<NewDatasetID, versionMap, writeLock, dsetObjs, nodeObjs,
                   minted, clock, outside>>

\* the elements of a finite set in some order
RECURSIVE SetToSeq(_)
SetToSeq(S) ==
    IF S = {} THEN <<>>
    ELSE LET x == CHOOSE y \in S : TRUE IN <<x>> \o SetToSeq(S \ {x})

\* the Node objects decoding makes for one encoded Dataset, in the order
\* they are put into memory
DecodedNodes(enc) ==
    LET us == SetToSeq(DOMAIN enc.Nodes)
    IN [k \in 1 .. Len(us) |->
            [GlobalID |-> enc.Nodes[us[k]].GlobalID,
             VersionID |-> enc.Nodes[us[k]].VersionID,
             Locked |-> enc.Nodes[us[k]].Locked,
             Parents |-> enc.Nodes[us[k]].Parents,
             Children |-> enc.Nodes[us[k]].Children,
             Created |-> enc.Nodes[us[k]].Created,
             Updated |-> enc.Nodes[us[k]].Updated,
             writeLock |-> NoThread]]

\* the Dataset object decoding makes for one encoded Dataset whose nodes
\* are put into memory after address base: private fields are zero values
DecodedDataset(enc, base) ==
    LET us == SetToSeq(DOMAIN enc.Nodes)
    IN [Root |-> enc.Root,
        Nodes |-> [u \in DOMAIN enc.Nodes |->
                      base + (CHOOSE k \in 1 .. Len(us) : us[k] = u)],
        VersionMap |-> enc.VersionMap,
        NewVersionID |-> enc.NewVersionID,
        NewDataID |-> enc.NewDataID,
        mapLock |-> NoThread,
        Alias |-> enc.Alias,
        DatasetID |-> enc.DatasetID,
        nameMap |-> EmptyMap]

\* decoding the encoded Datasets encs into memory that holds the Node
\* objects nodes: the new Dataset objects and the memory after it
RECURSIVE Decode(_, _)
Decode(encs, nodes) ==
    IF encs = <<>> THEN [dsets |-> <<>>, nodes |-> nodes]
    ELSE LET first == DecodedDataset(Head(encs), Len(nodes))
             rest == Decode(Tail(encs), nodes \o DecodedNodes(Head(encs)))
         IN [dsets |-> <<first>> \o rest.dsets, nodes |-> rest.nodes]

\* err := dvid.Deserialize(s, dsets): it fails when there are no bytes or
\* the bytes do not pass the checksum, and Deserialize returns the error;
\* else Datasets and NewDatasetID are what the bytes hold
Deserialize_decode(t, ok) ==
    /\ th[t].pc = "ds_decode"
    /\ IF ok /\ th[t].data # NoBytes
       THEN LET dec == Decode(th[t].data[1].Datasets, nodeObjs)
            IN /\ nodeObjs' = dec.nodes
               /\ dsetObjs' = dsetObjs \o dec.dsets
               /\ Datasets' = [i \in 1 .. Len(dec.dsets) |-> Len(dsetObjs) + i]
               /\ NewDatasetID' = th[t].data[1].NewDatasetID
               /\ Goto(t, th[t], "ds_reset")
       ELSE /\ Return(t, ErrDeserialize)
            /\ UNCHANGED <<Datasets, NewDatasetID, dsetObjs, nodeObjs>>
    /\ UNCHANGED <<versionMap, writeLock, minted, clock, outside>>

\* dsets.versionMap = make(map[UUID]*Dataset)
Deserialize_reset(t) ==
    /\ th[t].pc = "ds_reset"
    /\ versionMap' = EmptyMap
    /\ Goto(t, th[t], "ds_index")
    /\ UNCHANGED <<Datasets, NewDatasetID, writeLock, dsetObjs, nodeObjs,
                   minted, clock, outside>>

\* dset.Versions(): the keys of dag.Nodes
Versions(dset) == DOMAIN dset.Nodes

\* versionMap after the loop over dsets.Datasets that sets
\* dsets.versionMap[u] = dset for every u of dset.Versions(): a UUID found
\* in two Datasets ends up with the later one
RECURSIVE IndexAll(_, _, _)
IndexAll(m, ds, objs) ==
    IF ds = <<>> THEN m
    ELSE LET d == Head(ds)
             vs == Versions(objs[d])
         IN IndexAll([u \in (DOMAIN m) \cup vs |-> IF u \in vs THEN d ELSE m[u]],
                     Tail(ds), objs)

\* for _, dset := range dsets.Datasets { ... }; return nil
Deserialize_index(t) ==
    /\ th[t].pc = "ds_index"
    /\ versionMap' = IndexAll(versionMap, Datasets, dsetObjs)
    /\ Return(t, NoErr)
    /\ UNCHANGED <<Datasets, NewDatasetID, writeLock, dsetObjs, nodeObjs,
                   minted, clock, outside>>

\* what a Get that meets no error makes of a new Datasets object when the
\* store holds bytes: Deserialize from its first to its last statement
Loaded(bytes) ==
    LET dec == Decode(bytes[1].Datasets, <<>>)
        ds == [i \in 1 .. Len(dec.dsets) |-> i]
    IN [Datasets |-> ds,
        NewDatasetID |-> bytes[1].NewDatasetID,
        versionMap |-> IndexAll(EmptyMap, ds, dec.dsets),
        dsetObjs |-> dec.dsets,
        nodeObjs |-> dec.nodes]

\* the registry with its store: newDataset, Lock, newChild, newData, Put, Get
NextPersist(t) ==
    \/ NextData(t)
    \/ \E d \in KnownDatasets, u \in AllUUIDs : Lock(t, d, u)
    \/ \E parent \in AllUUIDs :
            Datasets_newChild_lookup(t, parent)
    \/ VersionDAG_newChild_check(t)
    \/ \E raw \in FreshRaw : VersionDAG_newChild_mint(t, raw)
    \/ VersionDAG_newChild_nodeLock(t)
    \/ VersionDAG_newChild_append(t)
    \/ VersionDAG_newChild_mapLock(t)
    \/ VersionDAG_newChild_insert(t)
    \/ VersionDAG_newChild_incr(t)
    \/ Datasets_newChild_index(t)
    \/ \E ok \in BOOLEAN : Put_serialize(t, ok)
    \/ \E ok \in BOOLEAN : Put_db(t, ok)
    \/ \E ok \in BOOLEAN : Get_read(t, ok)
    \/ Deserialize_clear(t)
    \/ \E ok \in BOOLEAN : Deserialize_decode(t, ok)
    \/ Deserialize_reset(t)
    \/ Deserialize_index(t)

\* the goroutine that builds a registry, stores it and loads it again
Main == 1

SpecPersist == Init /\ [][NextPersist(Main)]_vars

\* goroutines that make Datasets while others store the registry
NextSave(t) ==
    \/ newDataset_lock(t)
    \/ \E raw \in FreshRaw : newDataset_create(t, raw)
    \/ newDataset_incr(t)
    \/ newDataset_append(t)
    \/ newDataset_index(t)
    \/ \E ok \in BOOLEAN : Put_serialize(t, ok)
    \/ \E ok \in BOOLEAN : Put_db(t, ok)

SpecSave == Init /\ [][\E t \in Threads : NextSave(t)]_vars

\* ---------------------------------------------------------- prefix lookup
ErrAmbiguous == "Ambiguous"

\* strings.HasPrefix(s, prefix)
HasPrefix_equal(s, prefix) == s = prefix
HasPrefix(s, prefix) ==
    Len(s) >= Len(prefix) /\ SubSeq(s, 1, Len(prefix)) = prefix

\* the strings callers look up: short prefixes one or two or no UUID begins
\* with, the empty string, whole UUIDs, and strings longer than a UUID
Prefixes ==
    { <<>>, <<"a">>, <<"a", "0">>, <<"b">>, <<"c">> }
        \cup AllUUIDs \cup { u \o <<"0">> : u \in AllUUIDs }

\* what dsets.versionMap can hold: UUIDs indexed to Datasets
IndexMaps == UNION { [K -> 1 .. MaxDatasets] : K \in SUBSET AllUUIDs }

\* what dag.VersionMap (versioning.go) can hold: UUIDs with distinct ids
IdMaps ==
    UNION { { f \in [K -> 0 .. MaxUUIDs - 1] :
                \A a \in K : \A b \in K \ {a} : f[a] # f[b] } :
            K \in SUBSET AllUUIDs }

\* DatasetFromString(str) on a versionMap m, at the head of its loop:
\* numMatches := 0, the results at their zero values
DatasetFromString_start(m, str) ==
    [pc |-> "dfs_loop", m |-> m, str |-> str, rest |-> DOMAIN m,
     numMatches |-> 0, dataset |-> NoDataset, u |-> InvalidUUID,
     lastMatch |-> 0, id |-> 0, err |-> NoErr]

\* VersionIdFromString(str) on a VersionMap m, at the head of its loop
VersionIdFromString_start(m, str) ==
    [pc |-> "vid_loop", m |-> m, str |-> str, rest |-> DOMAIN m,
     numMatches |-> 0, dataset |-> NoDataset, u |-> InvalidUUID,
     lastMatch |-> 0, id |-> 0, err |-> NoErr]

\* one round of for dsetUUID, dset := range dsets.versionMap: the map is
\* visited in an order the language does not fix
DatasetFromString_visit(dsetUUID) ==
    /\ scan.pc = "dfs_loop"
    /\ dsetUUID \in scan.rest
    /\ scan' = IF HasPrefix(dsetUUID, scan.str)
               THEN [scan EXCEPT !.rest = @ \ {dsetUUID},
                                 !.numMatches = @ + 1,
                                 !.dataset = scan.m[dsetUUID],
                                 !.u = dsetUUID]
               ELSE [scan EXCEPT !.rest = @ \ {dsetUUID}]
    /\ UNCHANGED <<shared, th, minted, clock, guardVars, db>>

\* if numMatches > 1 {...} else if numMatches == 0 {...}; return
DatasetFromString_return ==
    /\ scan.pc = "dfs_loop"
    /\ scan.rest = {}
    /\ scan' = [scan EXCEPT
                   !.pc = "dfs_done",
                   !.err = IF scan.numMatches > 1 THEN ErrAmbiguous
                           ELSE IF scan.numMatches = 0 THEN ErrNotFound
                           ELSE NoErr]
    /\ UNCHANGED <<shared, th, minted, clock, guardVars, db>>

\* one round of for uuid, id := range dag.VersionMap
VersionIdFromString_visit(uuid) ==
    /\ scan.pc = "vid_loop"
    /\ uuid \in scan.rest
    /\ scan' = IF HasPrefix(uuid, scan.str)
               THEN [scan EXCEPT !.rest = @ \ {uuid},
                                 !.numMatches = @ + 1,
                                 !.lastMatch = scan.m[uuid]]
               ELSE [scan EXCEPT !.rest = @ \ {uuid}]
    /\ UNCHANGED <<shared, th, minted, clock, guardVars, db>>

\* if numMatches > 1 {...} else if numMatches == 0 {...} else
\* { id = lastMatch }; return
VersionIdFromString_return ==
    /\ scan.pc = "vid_loop"
    /\ scan.rest = {}
    /\ scan' = [scan EXCEPT
                   !.pc = "vid_done",
                   !.err = IF scan.numMatches > 1 THEN ErrAmbiguous
                           ELSE IF scan.numMatches = 0 THEN ErrNotFound
                           ELSE NoErr,
                   !.id = IF scan.numMatches = 1 THEN scan.lastMatch ELSE @]
    /\ UNCHANGED <<shared, th, minted, clock, guardVars, db>>

\* one lookup of one string in one map, nothing else going on
InitResolve ==
    /\ Datasets = <<>>
    /\ NewDatasetID = 0
    /\ versionMap = EmptyMap
    /\ writeLock = NoThread
    /\ dsetObjs = <<>>
    /\ nodeObjs = <<>>
    /\ th = [t \in Threads |-> IdleThread]
    /\ minted = {}
    /\ clock = 0
    /\ versionMutexes = EmptyMap
    /\ mutexObjs = <<>>
    /\ db = NoBytes
    /\ scan \in { DatasetFromString_start(m, str) :
                      m \in IndexMaps, str \in Prefixes }
            \cup { VersionIdFromString_start(m, str) :
                      m \in IdMaps, str \in Prefixes }

NextResolve ==
    \/ \E dsetUUID \in AllUUIDs : DatasetFromString_visit(dsetUUID)
    \/ DatasetFromString_return
    \/ \E uuid \in AllUUIDs : VersionIdFromString_visit(uuid)
    \/ VersionIdFromString_return

SpecResolve == InitResolve /\ [][NextResolve]_vars

\* ------------------------------------------------- Datasets.DataService
\* faulty variant: the Dataset is found through DatasetFromString
DataService_byPrefix(u, name) ==
    LET found == { k \in DOMAIN versionMap : HasPrefix(k, u) }
    IN IF Cardinality(found) # 1
       THEN [dataservice |-> NoService, err |-> ErrNotFound]
       ELSE LET dataset == dsetObjs[versionMap[CHOOSE k \in found : TRUE]]
            IN IF name \notin DOMAIN dataset.nameMap
               THEN [dataservice |-> NoService, err |-> ErrNotFound]
               ELSE [dataservice |-> dataset.nameMap[name], err |-> NoErr]

\* dataset, found := dsets.versionMap[u]; dataservice, found =
\* dataset.nameMap[name]: what DataService returns
DataService(u, name) ==
    IF u \notin DOMAIN versionMap
    THEN [dataservice |-> NoService, err |-> ErrNotFound]
    ELSE LET dataset == dsetObjs[versionMap[u]]
         IN IF name \notin DOMAIN dataset.nameMap
            THEN [dataservice |-> NoService, err |-> ErrNotFound]
            ELSE [dataservice |-> dataset.nameMap[name], err |-> NoErr]

\* a goroutine calls dsets.DataService(u, name): its caller holds what came
\* back
Datasets_DataService(t, u, name) ==
    /\ th[t].pc = "idle"
    /\ LET r == DataService(u, name)
       IN th' = [th EXCEPT ![t] = [IdleThread EXCEPT
                                      !.svc = r.dataservice, !.err = r.err]]
    /\ UNCHANGED <<shared, minted, clock, outside>>

\* the identifiers callers ask DataService for: the first UUID the source
\* hands out (a whole UUID, indexed once its Dataset is), a prefix of it,
\* and a string no UUID begins with
Identifiers == { NewUUID(RawUUID(1)), <<"a">>, <<"c">> }

\* the names callers ask for
DataNames == { r.name : r \in Requests }

\* the newData calls made where data is looked up
LookupRequests == { r \in Requests : r.config = "versioned" }

\* looking up the data of the Datasets: newDataset, newData, DataService
NextLookup(t) ==
    \/ Len(dsetObjs) < MaxDataDatasets /\ newDataset_lock(t)
    \/ \E raw \in FreshRaw : newDataset_create(t, raw)
    \/ newDataset_incr(t)
    \/ newDataset_append(t)
    \/ newDataset_index(t)
    \/ \E u \in AllUUIDs, r \in LookupRequests :
            Datasets_newData_lookup(t, u, r.name, r.typeName, r.config)
    \/ Dataset_NewData_check(t)
    \/ Dataset_NewData_lock(t)
    \/ \E ok \in BOOLEAN : Dataset_NewData_create(t, ok)
    \/ \E u \in Identifiers, name \in DataNames : Datasets_DataService(t, u, name)

SpecLookup == Init /\ [][\E t \in Threads : NextLookup(t)]_vars

\* ------------------------------------------------------ all the locking
\* the newData calls made where the locks are looked at: one that can
\* succeed and one for a type that is not compiled in
LockRequests ==
    { r \in Requests : r.name = "grayscale" /\ r.config = "versioned" }
        \cup { r \in Requests : r.typeName \notin CompiledTypeNames }

\* number of identifiers the UUID source hands out where the locks are
\* looked at
MaxLockUUIDs == 2

\* the UUID source can serve one more call there
CanMintForLocks == Cardinality(minted) + Cardinality(Pending) < MaxLockUUIDs

\* every operation that takes a lock, and Put: newDataset, Lock, newChild,
\* newData, Put
NextLocks(t) ==
    \/ Len(dsetObjs) < MaxDataDatasets /\ CanMintForLocks /\ newDataset_lock(t)
    \/ \E raw \in FreshRaw : newDataset_create(t, raw)
    \/ newDataset_incr(t)
    \/ newDataset_append(t)
    \/ newDataset_index(t)
    \/ \E d \in KnownDatasets, u \in AllUUIDs : Lock(t, d, u)
    \/ \E parent \in AllUUIDs :
            CanMintForLocks /\ Datasets_newChild_lookup(t, parent)
    \/ VersionDAG_newChild_check(t)
    \/ \E raw \in FreshRaw : VersionDAG_newChild_mint(t, raw)
    \/ VersionDAG_newChild_nodeLock(t)
    \/ VersionDAG_newChild_append(t)
    \/ VersionDAG_newChild_mapLock(t)
    \/ VersionDAG_newChild_insert(t)
    \/ VersionDAG_newChild_incr(t)
    \/ Datasets_newChild_index(t)
    \/ \E u \in AllUUIDs, r \in LockRequests :
            Datasets_newData_lookup(t, u, r.name, r.typeName, r.config)
    \/ Dataset_NewData_check(t)
    \/ Dataset_NewData_lock(t)
    \/ \E ok \in BOOLEAN : Dataset_NewData_create(t, ok)
    \/ \E ok \in BOOLEAN : Put_serialize(t, ok)
    \/ \E ok \in BOOLEAN : Put_db(t, ok)

\* a step of goroutine t inside a call it has started
Continue(t) == th[t].pc # "idle" /\ NextLocks(t)

\* the scheduler runs every goroutine that can run, and a goroutine that
\* waits for a sync.Mutex gets it when it is free again and again
Fairness == \A t \in Threads : SF_vars(Continue(t))

SpecLocks == Init /\ [][\E t \in Threads : NextLocks(t)]_vars /\ Fairness

\* ------------------------------------------------- a UUID source that fails
\* uuid.NewUUID() can return nil: the source then hands NilRaw to NewUUID
MintRaw == FreshRaw \cup {NilRaw}

\* goroutines that have drawn an identifier for a node they have still to make
Holding ==
    { t \in Threads :
        th[t].pc \in {"nc_nodeLock", "nc_append", "nc_mapLock", "nc_insert"} }

\* every draw, failed or not, makes one node object: the draws so far and the
\* ones the calls under way may still make fit the source
CanDraw ==
    Len(nodeObjs) + Cardinality(Holding) + Cardinality(Pending) < MaxUUIDs

\* what a caller can pass for a UUID: the known ones and the empty one
UUIDsAsked == AllUUIDs \cup {InvalidUUID}

\* newDataset, Lock and newChild over a source that may fail at every draw
NextMint(t) ==
    \/ CanDraw /\ newDataset_lock(t)
    \/ \E raw \in MintRaw : newDataset_create(t, raw)
    \/ newDataset_incr(t)
    \/ newDataset_append(t)
    \/ newDataset_index(t)
    \/ \E d \in KnownDatasets, u \in UUIDsAsked : Lock(t, d, u)
    \/ \E parent \in UUIDsAsked :
            CanDraw /\ Datasets_newChild_lookup(t, parent)
    \/ VersionDAG_newChild_check(t)
    \/ \E raw \in MintRaw : VersionDAG_newChild_mint(t, raw)
    \/ VersionDAG_newChild_nodeLock(t)
    \/ VersionDAG_newChild_append(t)
    \/ VersionDAG_newChild_mapLock(t)
    \/ VersionDAG_newChild_insert(t)
    \/ VersionDAG_newChild_incr(t)
    \/ Datasets_newChild_index(t)

SpecMint == Init /\ [][\E t \in Threads : NextMint(t)]_vars

\* ------------------------------------------------------ reading the state
Range(seq) == { seq[i] : i \in 1 .. Len(seq) }

\* the Dataset objects made so far, the ones under construction included
AllDatasets == DOMAIN dsetObjs

\* the keys of dag.Nodes and the node object under a key
NodesOf(d) == DOMAIN dsetObjs[d].Nodes
NodeAt(d, u) == nodeObjs[dsetObjs[d].Nodes[u]]

\* the Children links that leave u in the DAG of d
ChildrenOf(d, u) ==
    IF u \in NodesOf(d) THEN Range(NodeAt(d, u).Children) ELSE {}

\* S with everything that Children links reach from it
RECURSIVE Closure(_, _)
Closure(d, S) ==
    LET step == S \cup UNION { ChildrenOf(d, u) : u \in S }
    IN IF step = S THEN S ELSE Closure(d, step)

ReachableFromRoot(d) == Closure(d, {dsetObjs[d].Root})
Descendants(d, u) == Closure(d, ChildrenOf(d, u))

\* the places (parent, position) at which u stands in a Children list
ChildSlots(d, u) ==
    { <<p, i>> \in NodesOf(d) \X (1 .. Cardinality(DOMAIN nodeObjs)) :
        /\ i <= Len(NodeAt(d, p).Children)
        /\ NodeAt(d, p).Children[i] = u }

\* goroutine t is inside newChild (between its first step and its return)
InNewChild(t) ==
    th[t].pc \in {"nc_check", "nc_mint", "nc_nodeLock", "nc_append",
                  "nc_mapLock", "nc_insert", "nc_incr", "nc_index"}

\* goroutine t is inside newDataset
InNewDataset(t) ==
    th[t].pc \in {"nd_create", "nd_incr", "nd_append", "nd_index"}

\* no newChild or newDataset call is in progress on Dataset d
Settled(d) ==
    \A t \in Threads : th[t].dset = d => ~InNewChild(t) /\ ~InNewDataset(t)

\* goroutine t takes the step
Steps(t) == th'[t] # th[t]

\* ------------------------------------------------------------------ claims
\* C1: newChild on a parent that exists and is not locked returns the
\* NotLocked error, and neither of the call's two steps (the lookup in the
\* registry, the tests in the DAG) changes the registry, a Dataset or a node.
C1_UnlockedParentFails ==
    [][\A t \in Threads :
        /\ (th[t].pc = "idle" /\ th'[t].pc = "nc_check") => UNCHANGED shared
        /\ ( /\ th[t].pc = "nc_check"
             /\ Steps(t)
             /\ th[t].arg \in NodesOf(th[t].dset)
             /\ ~NodeAt(th[t].dset, th[t].arg).Locked )
           => /\ th'[t].pc = "idle"
              /\ th'[t].err = ErrNotLocked
              /\ UNCHANGED shared]_vars

\* a newChild call has come back with NotLocked
C1_Witness == \E t \in Threads : th[t].pc = "idle" /\ th[t].err = ErrNotLocked

\* C2: in every state a node that is not locked has no children.
C2_UnlockedHasNoChildren ==
    \A a \in DOMAIN nodeObjs : ~nodeObjs[a].Locked => nodeObjs[a].Children = <<>>

\* a locked node has a child that is itself not locked, while a second
\* newChild call is under way
C2_Witness ==
    /\ \E a, b \in DOMAIN nodeObjs :
        /\ nodeObjs[a].Locked
        /\ nodeObjs[b].GlobalID \in Range(nodeObjs[a].Children)
        /\ ~nodeObjs[b].Locked
    /\ \E t \in Threads : InNewChild(t)

\* C3: once no call is in progress on a Dataset, every node but the root has
\* exactly one parent, which is another node of the DAG, is locked and
\* lists the node among its Children; Parents and Children mirror each
\* other; only the root has no parent.
C3_OneParent ==
    \A d \in AllDatasets : Settled(d) =>
        /\ NodeAt(d, dsetObjs[d].Root).Parents = <<>>
        /\ \A u \in NodesOf(d) \ {dsetObjs[d].Root} :
            /\ Len(NodeAt(d, u).Parents) = 1
            /\ NodeAt(d, u).Parents[1] # u
            /\ NodeAt(d, u).Parents[1] \in NodesOf(d)
            /\ NodeAt(d, NodeAt(d, u).Parents[1]).Locked
            /\ u \in ChildrenOf(d, NodeAt(d, u).Parents[1])
        /\ \A u, p \in NodesOf(d) :
            p \in Range(NodeAt(d, u).Parents) <=> u \in ChildrenOf(d, p)

\* C4: in every DAG the Children links form no cycle, every node of Nodes is
\* reached from the root along them, and no node stands in two places of the
\* Children lists.
C4_TreeFromRoot ==
    \A d \in AllDatasets :
        /\ \A u \in NodesOf(d) : u \notin Descendants(d, u)
        /\ NodesOf(d) \subseteq ReachableFromRoot(d)
        /\ \A u \in NodesOf(d) : Cardinality(ChildSlots(d, u)) <= 1

\* a DAG with a root, a child and a grandchild
C4_Witness ==
    \E d \in AllDatasets : \E u, v \in NodesOf(d) :
        /\ u \in ChildrenOf(d, dsetObjs[d].Root)
        /\ v \in ChildrenOf(d, u)

\* the version ids of the nodes of d
VersionIDs(d) == { NodeAt(d, u).VersionID : u \in NodesOf(d) }

\* the UUIDs the registry maps to d: the root, and one per newChild call on
\* d that has returned
IndexedTo(d) == { u \in DOMAIN versionMap : versionMap[u] = d }

C5_IdsDistinct ==
    \A d \in AllDatasets :
        /\ NodeAt(d, dsetObjs[d].Root).VersionID = 0
        /\ Cardinality(VersionIDs(d)) = Cardinality(NodesOf(d))
        /\ Settled(d) => VersionIDs(d) = 0 .. (Cardinality(IndexedTo(d)) - 1)

C5_IdsKept ==
    \A d \in AllDatasets : \A u \in NodesOf(d) :
        /\ u \in DOMAIN dsetObjs'[d].Nodes
        /\ nodeObjs'[dsetObjs'[d].Nodes[u]].VersionID = NodeAt(d, u).VersionID

\* C5: the root has version id 0, the version ids of a DAG are pairwise
\* distinct at every moment, once the N newChild calls on a Dataset have
\* returned they are exactly 0..N, and no step changes the id of a UUID.
C5_VersionIds == []C5_IdsDistinct /\ [][C5_IdsKept]_vars

\* two newChild calls off the same parent have raced through the DAG and
\* both are about to return
C5_Witness ==
    \E t1, t2 \in Threads :
        /\ t1 # t2
        /\ th[t1].pc = "nc_index" /\ th[t2].pc = "nc_index"
        /\ th[t1].node = th[t2].node

\* C6: while no call is in progress on a Dataset, VersionMap has the keys of
\* Nodes and maps each of them to the node's VersionID.
C6_VersionMapMirrorsNodes ==
    \A d \in AllDatasets : Settled(d) =>
        /\ DOMAIN dsetObjs[d].VersionMap = NodesOf(d)
        /\ \A u \in NodesOf(d) : dsetObjs[d].VersionMap[u] = NodeAt(d, u).VersionID

\* a step that makes node objects makes them unlocked
C7_BornUnlocked ==
    \A a \in (DOMAIN nodeObjs') \ (DOMAIN nodeObjs) : ~nodeObjs'[a].Locked

\* a locked node stays locked
C7_OneWay ==
    \A a \in DOMAIN nodeObjs : nodeObjs[a].Locked => nodeObjs'[a].Locked

\* a step that sets the flag of a node changes nothing else
C7_OnlyTheFlag ==
    \A a \in DOMAIN nodeObjs :
        (~nodeObjs[a].Locked /\ nodeObjs'[a].Locked) =>
            /\ nodeObjs' = [nodeObjs EXCEPT ![a].Locked = TRUE]
            /\ UNCHANGED <<registryVars, dsetObjs>>

\* what a Lock call does, for each of its three cases
C7_LockCall ==
    \A t \in Threads, d \in KnownDatasets, u \in AllUUIDs :
        Lock(t, d, u) =>
            IF u \notin NodesOf(d)
            THEN th'[t].err = ErrNotFound /\ UNCHANGED shared
            ELSE /\ th'[t].err = NoErr
                 /\ nodeObjs'[dsetObjs[d].Nodes[u]].Locked
                 /\ NodeAt(d, u).Locked => UNCHANGED shared

\* C7: nodes are made unlocked; no step clears a Locked flag; a step that
\* sets one changes nothing else; Lock on a locked node changes nothing;
\* Lock of a UUID the DAG does not hold returns NotFound and changes nothing.
C7_LockOneWay ==
    [][C7_BornUnlocked /\ C7_OneWay /\ C7_OnlyTheFlag /\ C7_LockCall]_vars

\* a node was locked, then got a child, and is locked still
C7_Witness ==
    \E a \in DOMAIN nodeObjs :
        /\ nodeObjs[a].Locked
        /\ nodeObjs[a].Children # <<>>
        /\ nodeObjs[a].Updated > nodeObjs[a].Created

\* C8: NewData with a name the Dataset already holds returns AlreadyExists,
\* and neither of the call's two steps (the lookup in the registry, the
\* name test) changes the name map, the data-id counter or anything else.
C8_DuplicateNameFails ==
    [][\A t \in Threads :
        /\ (th[t].pc = "idle" /\ th'[t].pc = "data_check") => UNCHANGED shared
        /\ ( /\ th[t].pc = "data_check"
             /\ Steps(t)
             /\ th[t].name \in DOMAIN dsetObjs[th[t].dset].nameMap )
           => /\ th'[t].pc = "idle"
              /\ th'[t].err = ErrAlreadyExists
              /\ UNCHANGED shared]_vars

\* a NewData call has come back with AlreadyExists, and the name map holds
\* a data instance
C8_Witness ==
    /\ \E t \in Threads : th[t].pc = "idle" /\ th[t].err = ErrAlreadyExists
    /\ \E d \in AllDatasets : dsetObjs[d].nameMap # EmptyMap

\* C9: the data instance stored under a name is never replaced or removed:
\* of the NewData calls for one name only one stores an instance.
C9_InstanceNeverReplaced ==
    [][\A d \in AllDatasets : \A n \in DOMAIN dsetObjs[d].nameMap :
        /\ n \in DOMAIN dsetObjs'[d].nameMap
        /\ dsetObjs'[d].nameMap[n] = dsetObjs[d].nameMap[n]]_vars

\* C10: the data ids of the instances of a Dataset are pairwise distinct, and
\* NewDataID is greater than each of them.
C10_DataIdsFresh ==
    \A d \in AllDatasets :
        /\ \A n, m \in DOMAIN dsetObjs[d].nameMap :
            n # m => dsetObjs[d].nameMap[n].DataID.ID # dsetObjs[d].nameMap[m].DataID.ID
        /\ \A n \in DOMAIN dsetObjs[d].nameMap :
            dsetObjs[d].NewDataID > dsetObjs[d].nameMap[n].DataID.ID

\* ------------------------------------------------------------------- C11
\* a call of VersionMutex has handed its caller a guard
HasGuard(t) == th[t].pc \in {"vm_return", "guarded"}

\* C11: all calls of VersionMutex for one (DatasetID, DataID, VersionID)
\* triple, the ones racing on the first access included, return the same
\* lock object, and two callers holding the guard of one triple are never
\* inside their guarded operations at the same time.
C11_OneGuardPerTriple ==
    \A t1 \in Threads : \A t2 \in Threads \ {t1} :
        /\ (HasGuard(t1) /\ HasGuard(t2) /\ th[t1].id = th[t2].id)
               => th[t1].vmutex = th[t2].vmutex
        /\ ~(th[t1].pc = "guarded" /\ th[t2].pc = "guarded"
                /\ th[t1].id = th[t2].id)

\* ------------------------------------------------------------------- C12
\* the guards two callers have are for different (Dataset, Data, Version)
\* triples: another Dataset, another data instance of the Dataset, or
\* another version
OtherTriple(t1, t2) ==
    \/ th[t1].svc.DataID.DatasetID # th[t2].svc.DataID.DatasetID
    \/ th[t1].svc.DataID.Name # th[t2].svc.DataID.Name
    \/ th[t1].id.Version # th[t2].id.Version

\* C12: VersionMutex returns distinct lock objects for triples that differ
\* in any component (two data instances of one Dataset at one version, one
\* data instance at two versions), so the holder of one guard never delays
\* a caller that wants the guard of another triple.
C12_OtherTripleOtherGuard ==
    \A t1 \in Threads : \A t2 \in Threads \ {t1} :
        (HasGuard(t1) /\ HasGuard(t2) /\ OtherTriple(t1, t2))
            => th[t1].vmutex # th[t2].vmutex

\* ------------------------------------------------------------------- C13
\* C13: what a Put has stored is the serialization of a registry between
\* complete operations, never of a half-applied one: since every complete
\* newDataset advances the Dataset counter and appends one Dataset, the
\* stored counter is the number of stored Datasets.
C13_StoredBetweenOperations ==
    db # NoBytes => db[1].NewDatasetID = Len(db[1].Datasets)

\* ------------------------------------------------------------------- C14
\* the registry the goroutines share, as one value
Registry ==
    [Datasets |-> Datasets, NewDatasetID |-> NewDatasetID,
     versionMap |-> versionMap, dsetObjs |-> dsetObjs, nodeObjs |-> nodeObjs]

\* what a registry holds, whatever the addresses of its objects: for every
\* Dataset in order its DAG (nodes by content, counters, ids) and its data
\* instances, the Dataset counter, and for every indexed UUID the place in
\* Datasets of the Dataset it is indexed to (0 when it is not in Datasets)
Content(r) ==
    [Datasets |->
        [i \in 1 .. Len(r.Datasets) |->
            LET dset == r.dsetObjs[r.Datasets[i]]
            IN [Root |-> dset.Root,
                Nodes |-> [u \in DOMAIN dset.Nodes |->
                              [r.nodeObjs[dset.Nodes[u]] EXCEPT
                                   !.writeLock = NoThread]],
                VersionMap |-> dset.VersionMap,
                NewVersionID |-> dset.NewVersionID,
                NewDataID |-> dset.NewDataID,
                Alias |-> dset.Alias,
                DatasetID |-> dset.DatasetID,
                nameMap |-> dset.nameMap]],
     NewDatasetID |-> r.NewDatasetID,
     index |->
        [u \in DOMAIN r.versionMap |->
            IF \E i \in 1 .. Len(r.Datasets) : r.Datasets[i] = r.versionMap[u]
            THEN CHOOSE i \in 1 .. Len(r.Datasets) :
                     r.Datasets[i] = r.versionMap[u]
            ELSE 0]]

\* no call is in progress
AtRest == \A t \in Threads : th[t].pc = "idle"

\* some Dataset of the registry has a locked node with a child
HasLockedBranch ==
    \E i \in 1 .. Len(Datasets) : \E u \in NodesOf(Datasets[i]) :
        NodeAt(Datasets[i], u).Locked /\ NodeAt(Datasets[i], u).Children # <<>>

\* C14: a registry at rest with a locked, branched node, stored by Put and
\* loaded by Get into a new registry, comes back with the same content:
\* Datasets in order with their ids and the Dataset counter, the DAGs, the
\* data instances of every Dataset, and the rebuilt UUID index.
C14_RoundTrip ==
    (AtRest /\ HasLockedBranch) => Content(Loaded(Serialize)) = Content(Registry)

\* ------------------------------------------------------------------- C15
\* string p is the beginning of string k
StartsWith(k, p) ==
    Len(p) <= Len(k) /\ \A i \in 1 .. Len(p) : k[i] = p[i]

\* the known UUIDs that start with the string looked up
Matching == { k \in DOMAIN scan.m : StartsWith(k, scan.str) }

ResolvedDatasets(u) ==
    LET found == { k \in DOMAIN versionMap : StartsWith(k, u) }
    IN IF Cardinality(found) = 1 THEN { versionMap[k] : k \in found } ELSE {}

\* the answer to DataService(u, name) when the Dataset is one of ds
AnswerFrom(ds, name, r) ==
    IF \E d \in ds : name \in DOMAIN dsetObjs[d].nameMap
    THEN /\ r.err = NoErr
         /\ \E d \in ds : r.dataservice = dsetObjs[d].nameMap[name]
    ELSE r.err = ErrNotFound /\ r.dataservice = NoService

\* goroutine t makes a call that returns in the same step
CallReturned(t) == th[t].pc = "idle" /\ th'[t].pc = "idle" /\ Steps(t)

\* C16 as stated: for an identifier that ResolveUUID resolves to a Dataset
\* (a whole UUID or a unique prefix of one) DataService returns that
\* Dataset's data instance of the name, and NotFound when the identifier
\* resolves to no node or the Dataset has no data of that name.
C16_ResolvesPrefixes ==
    [][\A t \in Threads : CallReturned(t) =>
        \A u \in Identifiers : \A name \in DataNames :
          Datasets_DataService(t, u, name) =>
              /\ th'[t].err = DataService(u, name).err
              /\ AnswerFrom(ResolvedDatasets(u), name, DataService(u, name))]_vars

\* the Dataset indexed under u itself, if any
IndexedDatasets(u) ==
    IF u \in DOMAIN versionMap THEN { versionMap[u] } ELSE {}

\* C16 amended: DataService looks the identifier up in the UUID index as it
\* is: for a whole UUID of the index it returns the data instance of that
\* name of the Dataset the UUID is indexed to, or NotFound when that
\* Dataset has no data of the name; for any other identifier, a unique
\* prefix of a known UUID included, it returns NotFound.
C16_ExactLookup ==
    [][\A t \in Threads : CallReturned(t) =>
        \A u \in Identifiers : \A name \in DataNames :
          Datasets_DataService(t, u, name) =>
              /\ th'[t].err = DataService(u, name).err
              /\ th'[t].svc = DataService(u, name).dataservice
              /\ AnswerFrom(IndexedDatasets(u), name, DataService(u, name))]_vars

\* a caller holds a data instance that DataService returned, and a unique
\* prefix of the UUID it is found under is among the identifiers asked for
C16_Witness ==
    /\ \E t \in Threads :
          th[t].pc = "idle" /\ th[t].err = NoErr /\ th[t].svc # NoService
    /\ \E u \in Identifiers \ DOMAIN versionMap :
          \E d \in ResolvedDatasets(u) : dsetObjs[d].nameMap # EmptyMap

\* ------------------------------------------------------------------- C17
\* C17: newChild is atomic to everybody who does not hold the DAG's map
\* lock: while mapLock is free, every UUID in a node's Children is a key
\* of Nodes (what Versions() returns), and every node of Nodes has a local
\* id below NewVersionID.
C17_ChildAtOnce ==
    \A d \in AllDatasets :
        dsetObjs[d].mapLock = NoThread =>
            \A u \in NodesOf(d) :
                /\ \A c \in Range(NodeAt(d, u).Children) :
                        c \in Versions(dsetObjs[d])
                /\ NodeAt(d, u).VersionID < dsetObjs[d].NewVersionID

\* ------------------------------------------------------------------- C18
\* C18: the Datasets sequence, the Dataset counter and the UUID index
\* change only in steps of the goroutine that holds the registry's write
\* lock.
C18_RegistryUnderWriteLock ==
    [][<<Datasets, NewDatasetID, versionMap>>' # <<Datasets, NewDatasetID, versionMap>>
          => \E t \in Threads : Steps(t) /\ writeLock = t]_vars

\* ------------------------------------------------------------------- C19
\* the UUID index and the Datasets sequence agree: every indexed UUID is
\* indexed to a Dataset of the sequence, and every node of every Dataset of
\* the sequence is indexed to that Dataset
IndexAgrees ==
    /\ \A u \in DOMAIN versionMap : versionMap[u] \in Range(Datasets)
    /\ \A d \in Range(Datasets) : \A u \in NodesOf(d) :
            u \in DOMAIN versionMap /\ versionMap[u] = d

\* C19: when a Get has returned an error, from the store or from
\* Deserialize, and nothing else is going on, the Datasets sequence and
\* the UUID index still agree.
C19_FailedLoadConsistent ==
    (AtRest /\ \E t \in Threads : th[t].err \in {ErrBackend, ErrDeserialize})
        => IndexAgrees

\* ------------------------------------------------------------------- C20
\* the goroutine holding a lock is inside the call that took it, between
\* the Lock and the Unlock
HeldInsideCalls ==
    /\ writeLock # NoThread =>
          th[writeLock].pc \in {"nd_create", "nd_incr", "nd_append", "nd_index"}
    /\ \A d \in AllDatasets :
          dsetObjs[d].mapLock # NoThread =>
              /\ th[dsetObjs[d].mapLock].pc \in {"nc_insert", "nc_incr", "data_create"}
              /\ th[dsetObjs[d].mapLock].dset = d
    /\ \A n \in DOMAIN nodeObjs :
          nodeObjs[n].writeLock # NoThread =>
              /\ th[nodeObjs[n].writeLock].pc = "nc_append"
              /\ th[nodeObjs[n].writeLock].node = n

\* C20: every lock a call takes is released before the call returns, on
\* every path, so a lock is held only by a goroutine inside the call that
\* took it (none is held when no call is in progress); and with a fair
\* scheduler every call that has started returns.
C20_LocksReleased ==
    /\ []HeldInsideCalls
    /\ \A t \in Threads : (th[t].pc # "idle") ~> (th[t].pc = "idle")

\* a newData call whose constructor failed has returned, a Put has failed,
\* and no lock is held
C20_Witness ==
    /\ \E t \in Threads : th[t].pc = "idle" /\ th[t].err = ErrConstructor
    /\ \E t \in Threads :
          th[t].pc = "idle" /\ th[t].err \in {ErrSerialize, ErrBackend}
    /\ writeLock = NoThread
    /\ \A d \in AllDatasets : dsetObjs[d].mapLock = NoThread
    /\ \A n \in DOMAIN nodeObjs : nodeObjs[n].writeLock = NoThread
    /\ \E d \in AllDatasets : Cardinality(NodesOf(d)) > 1

\* ------------------------------------------------------------------- C21
\* C21: whenever no call is in progress, the UUID index is the union of
\* the node sets of the Datasets of the registry: a UUID is a key of the
\* index exactly when it is a key of Nodes in some Dataset of the sequence,
\* the index maps it to that Dataset, and no UUID is in two Datasets.
C21_IndexIsUnionOfNodes ==
    AtRest =>
        /\ DOMAIN versionMap = UNION { NodesOf(d) : d \in Range(Datasets) }
        /\ \A u \in DOMAIN versionMap : u \in NodesOf(versionMap[u])
        /\ \A d1 \in Range(Datasets) : \A d2 \in Range(Datasets) \ {d1} :
                NodesOf(d1) \cap NodesOf(d2) = {}

\* ------------------------------------------------------------------- C22
\* the empty UUID is no root, no key of Nodes, no entry of a Children list
\* and no key of the index
C22_ValidKeys ==
    /\ InvalidUUID \notin DOMAIN versionMap
    /\ \A d \in AllDatasets :
            dsetObjs[d].Root # InvalidUUID /\ InvalidUUID \notin NodesOf(d)
    /\ \A a \in DOMAIN nodeObjs : InvalidUUID \notin Range(nodeObjs[a].Children)

\* while no call is in progress on a Dataset its counter is its number of nodes
C22_NodesCounted ==
    \A d \in AllDatasets :
        Settled(d) => Cardinality(NodesOf(d)) = dsetObjs[d].NewVersionID

\* goroutine t is in newChild past the draw, and what it drew is the empty UUID
MintFailed(t) ==
    /\ th[t].pc \in {"nc_nodeLock", "nc_append", "nc_mapLock", "nc_insert",
                     "nc_incr", "nc_index"}
    /\ th[t].u = InvalidUUID

\* a step of a newChild call whose draw failed leaves every Children list,
\* every Nodes map, every counter and the index as they are, and the call
\* returns an error
C22_FailedMintReturns ==
    \A t \in Threads : (MintFailed(t) /\ Steps(t)) =>
        /\ versionMap' = versionMap
        /\ \A d \in AllDatasets :
            /\ dsetObjs'[d].Nodes = dsetObjs[d].Nodes
            /\ dsetObjs'[d].NewVersionID = dsetObjs[d].NewVersionID
        /\ \A a \in DOMAIN nodeObjs : nodeObjs'[a].Children = nodeObjs[a].Children
        /\ th'[t].pc = "idle" => th'[t].err # NoErr

\* C22: the empty UUID never enters a DAG: a newChild whose identifier draw
\* failed returns an error and changes no Children list, no Nodes map, no
\* counter and not the index, NewVersionDAG makes no root keyed by the empty
\* UUID, so that every key of Nodes and every Children entry is a non-empty
\* UUID and the number of nodes of a Dataset equals its NewVersionID.
C22_EmptyNeverEnters ==
    /\ []C22_ValidKeys
    /\ []C22_NodesCounted
    /\ [][C22_FailedMintReturns]_vars

====
